---- MODULE Spec2Model ----
(***************************************************************************)
(* The Lookout screen-cloak service (class Cloak): a two-valued status     *)
(* flag that drives a dimming effect on the stage actor, the compositor's  *)
(* unredirect switch, the cursor tracker's pointer visibility, and a       *)
(* D-Bus export with one Status property.                                  *)
(*                                                                         *)
(* Everything runs on the shell's single main-loop thread, so each         *)
(* handler is one action.  A signal emitted by a collaborator is delivered *)
(* synchronously, inside the call that emits it, and is therefore part of  *)
(* the action that made the call.                                          *)
(***************************************************************************)
EXTENDS Integers, Sequences, FiniteSets, TLC

\* enum Status
visible == 0
hidden == 1

\* Largest handler id the cursor tracker hands out in a checked run.
MaxHandlerId == 3

VARIABLES
    status,           \* Cloak.status
    cursorWatcherId,  \* Cloak.cursorWatcherId
    exportedObject,   \* Cloak.exportedObject: "undefined", "exported", "unexported"
    actor,            \* number of times Cloak.effect sits in the actor's effect list
    compositor,       \* the compositor's disable-unredirect count
    cursorTracker,    \* [visible, handlers, next]: pointer shown, connected handler ids, next id
    ownerId,          \* state of the own_name request behind Cloak.ownerId
    trace,            \* collaborator calls made by the last handler, in order
    lastOp,           \* the handler that ran last
    result,           \* value returned by the last Status read
    lookout,          \* the extension: [service, gsettings, keyBinding, fetchFailed, raised]
    history           \* of the service so far: [unredirect, notified]

vars == <<status, cursorWatcherId, exportedObject, actor, compositor,
          cursorTracker, ownerId, trace, lastOp, result, lookout, history>>

\* The service and its collaborators as one value, so that handlers compose.
State ==
    [status |-> status, cursorWatcherId |-> cursorWatcherId,
     exportedObject |-> exportedObject, actor |-> actor,
     compositor |-> compositor, cursorTracker |-> cursorTracker,
     ownerId |-> ownerId, trace |-> <<>>]

\* A collaborator call: its name, its argument, and the callback invocation
\* that issued it (0 when a method of the service or another party did).
Call(s, name, arg, by) ==
    [s EXCEPT !.trace = Append(@, [call |-> name, arg |-> arg, by |-> by])]

BoolToInt(b) == IF b THEN 1 ELSE 0

Min(S) == CHOOSE x \in S : \A y \in S : x <= y

\* How many Status notifications the history keeps: the latest ones.
Kept == 3

Latest(seq) ==
    IF Len(seq) <= Kept THEN seq ELSE SubSeq(seq, Len(seq) - Kept + 1, Len(seq))

\* A service that has made no call yet.
NoHistory == [unredirect |-> 0, notified |-> <<>>]

\* The history after the calls of tr: unredirect is the number of
\* disable_unredirect() calls less the number of enable_unredirect() calls
\* the service has issued, notified the values of its latest Status
\* notifications. Constructing a service starts a new history.
RECURSIVE Record(_, _)
Record(h, tr) ==
    IF tr = <<>> THEN h
    ELSE LET e == Head(tr)
             h1 == CASE e.call = "own_name" -> NoHistory
                      [] e.call = "disable_unredirect" ->
                             [h EXCEPT !.unredirect = @ + 1]
                      [] e.call = "enable_unredirect" ->
                             [h EXCEPT !.unredirect = @ - 1]
                      [] e.call = "emit_property_changed" ->
                             [h EXCEPT !.notified = Latest(Append(@, e.arg))]
                      [] OTHER -> h
         IN  Record(h1, Tail(tr))

-----------------------------------------------------------------------------
(* Collaborators *)

\* Status, effect and subscription agree: Hidden with the effect on the actor
\* and the service's handler connected, or Visible with neither.
Agrees(s) ==
    /\ s.actor = IF s.status = hidden THEN 1 ELSE 0
    /\ s.cursorTracker.handlers =
          IF s.status = hidden THEN {s.cursorWatcherId} ELSE {}

RECURSIVE set_pointer_visible(_, _, _)
RECURSIVE emit_visibility_changed(_, _)
RECURSIVE onVisibilityChanged(_)

\* onVisibilityChanged without its test of get_pointer_visible().
onVisibilityChangedAlways(s) ==
    LET me == Len(s.trace) + 1
        s1 == Call(s, "onVisibilityChanged", BoolToInt(Agrees(s)), 0)
        shown == s1.cursorTracker.visible
        s2 == Call(s1, "get_pointer_visible", BoolToInt(shown), me)
    IN  set_pointer_visible(s2, FALSE, me)

\* Cloak.onVisibilityChanged: hide the pointer again, but only if something
\* else made it visible.
onVisibilityChanged(s) ==
    LET me == Len(s.trace) + 1
        s1 == Call(s, "onVisibilityChanged", BoolToInt(Agrees(s)), 0)
        shown == s1.cursorTracker.visible
        s2 == Call(s1, "get_pointer_visible", BoolToInt(shown), me)
    IN  IF shown THEN set_pointer_visible(s2, FALSE, me) ELSE s2

\* The tracker runs every connected handler, in connection order.
emit_visibility_changed(s, hs) ==
    IF hs = {} THEN s
    ELSE LET h == Min(hs)
         IN  emit_visibility_changed(onVisibilityChanged(s), hs \ {h})

\* Meta.CursorTracker.set_pointer_visible: signals 'visibility-changed'
\* when, and only when, the visibility changes.
set_pointer_visible(s, v, by) ==
    LET s1 == Call(s, "set_pointer_visible", BoolToInt(v), by)
    IN  IF s1.cursorTracker.visible = v THEN s1
        ELSE emit_visibility_changed(
                 [s1 EXCEPT !.cursorTracker.visible = v],
                 s1.cursorTracker.handlers)

disable_unredirect(s) ==
    Call([s EXCEPT !.compositor = @ + 1], "disable_unredirect", 0, 0)

enable_unredirect(s) ==
    Call([s EXCEPT !.compositor = IF @ > 0 THEN @ - 1 ELSE 0],
         "enable_unredirect", 0, 0)

add_effect(s) == Call([s EXCEPT !.actor = @ + 1], "add_effect", 0, 0)

remove_effect(s) ==
    Call([s EXCEPT !.actor = IF @ > 0 THEN @ - 1 ELSE 0], "remove_effect", 0, 0)

\* cursorTracker.connect('visibility-changed', ...): a fresh handler id.
connect(s) ==
    LET id == s.cursorTracker.next
    IN  Call([s EXCEPT !.cursorTracker.handlers = @ \cup {id},
                       !.cursorTracker.next = id + 1,
                       !.cursorWatcherId = id],
             "connect", id, 0)

disconnect(s, id) ==
    Call([s EXCEPT !.cursorTracker.handlers = @ \ {id}], "disconnect", id, 0)

\* exportedObject?.emit_property_changed('Status', value); the value is the
\* uint32 variant's payload, which for the two members of Status is the
\* member itself.
emit_property_changed(s, value) ==
    IF s.exportedObject = "undefined" THEN s
    ELSE Call(s, "emit_property_changed", value, 0)

\* exportedObject?.unexport()
unexport(s) ==
    IF s.exportedObject = "undefined" THEN s
    ELSE Call([s EXCEPT !.exportedObject = "unexported"], "unexport", 0, 0)

bus_unown_name(s) ==
    Call([s EXCEPT !.ownerId = "unowned"], "bus_unown_name", 0, 0)

-----------------------------------------------------------------------------
(* Cloak *)

\* Hide that drops the id connect() returns.
HideLosesHandlerId(s) ==
    IF s.status = visible
    THEN LET s1 == [s EXCEPT !.status = hidden]
             s2 == disable_unredirect(s1)
             s3 == add_effect(s2)
             s4 == [connect(s3) EXCEPT !.cursorWatcherId = s3.cursorWatcherId]
             s5 == set_pointer_visible(s4, FALSE, 0)
         IN  emit_property_changed(s5, s5.status)
    ELSE s

\* Hide that signals Status before it has changed it.
HideSignalsOldStatus(s) ==
    IF s.status = visible
    THEN LET s1 == [s EXCEPT !.status = hidden]
             s2 == disable_unredirect(s1)
             s3 == add_effect(s2)
             s4 == connect(s3)
             s5 == set_pointer_visible(s4, FALSE, 0)
         IN  emit_property_changed(s5, s.status)
    ELSE s

\* Hide without the test of status.
HideUnguarded(s) ==
    LET s1 == [s EXCEPT !.status = hidden]
        s2 == disable_unredirect(s1)
        s3 == add_effect(s2)
        s4 == connect(s3)
        s5 == set_pointer_visible(s4, FALSE, 0)
    IN  emit_property_changed(s5, s5.status)

\* Hide that subscribes but does not hide the pointer itself.
HideLeavesPointer(s) ==
    IF s.status = visible
    THEN LET s1 == [s EXCEPT !.status = hidden]
             s2 == disable_unredirect(s1)
             s3 == add_effect(s2)
             s4 == connect(s3)
         IN  emit_property_changed(s4, s4.status)
    ELSE s

\* Hide that does everything but change status.
HideKeepsStatus(s) ==
    IF s.status = visible
    THEN LET s2 == disable_unredirect(s)
             s3 == add_effect(s2)
             s4 == connect(s3)
             s5 == set_pointer_visible(s4, FALSE, 0)
         IN  emit_property_changed(s5, s5.status)
    ELSE s

\* Hide that hides the pointer before it dims the screen.
HideDimsLast(s) ==
    IF s.status = visible
    THEN LET s1 == [s EXCEPT !.status = hidden]
             s2 == disable_unredirect(s1)
             s3 == connect(s2)
             s4 == set_pointer_visible(s3, FALSE, 0)
             s5 == add_effect(s4)
         IN  emit_property_changed(s5, s5.status)
    ELSE s

Hide(s) ==
    IF s.status = visible
    THEN LET s1 == [s EXCEPT !.status = hidden]
             s2 == disable_unredirect(s1)
             s3 == add_effect(s2)
             s4 == connect(s3)
             s5 == set_pointer_visible(s4, FALSE, 0)
         IN  emit_property_changed(s5, s5.status)
    ELSE s

\* Reveal that does everything but change status.
RevealKeepsStatus(s) ==
    IF s.status = hidden
    THEN LET s2 == enable_unredirect(s)
             s3 == remove_effect(s2)
             s4 == disconnect(s3, s3.cursorWatcherId)
         IN  emit_property_changed(s4, s4.status)
    ELSE s

\* Reveal that leaves the effect on the actor.
RevealKeepsEffect(s) ==
    IF s.status = hidden
    THEN LET s1 == [s EXCEPT !.status = visible]
             s2 == enable_unredirect(s1)
             s4 == disconnect(s2, s2.cursorWatcherId)
         IN  emit_property_changed(s4, s4.status)
    ELSE s

\* Reveal without the test of status.
RevealUnguarded(s) ==
    LET s1 == [s EXCEPT !.status = visible]
        s2 == enable_unredirect(s1)
        s3 == remove_effect(s2)
        s4 == disconnect(s3, s3.cursorWatcherId)
    IN  emit_property_changed(s4, s4.status)

\* Reveal that also resets the stored handler id.
RevealClearsHandle(s) ==
    IF s.status = hidden
    THEN LET s1 == [s EXCEPT !.status = visible]
             s2 == enable_unredirect(s1)
             s3 == remove_effect(s2)
             s4 == [disconnect(s3, s3.cursorWatcherId) EXCEPT !.cursorWatcherId = 0]
         IN  emit_property_changed(s4, s4.status)
    ELSE s

\* Reveal that leaves the handler connected.
RevealKeepsHandler(s) ==
    IF s.status = hidden
    THEN LET s1 == [s EXCEPT !.status = visible]
             s2 == enable_unredirect(s1)
             s3 == remove_effect(s2)
         IN  emit_property_changed(s3, s3.status)
    ELSE s

\* Reveal that shows the pointer again.
RevealShowsPointer(s) ==
    IF s.status = hidden
    THEN LET s1 == [s EXCEPT !.status = visible]
             s2 == enable_unredirect(s1)
             s3 == remove_effect(s2)
             s4 == disconnect(s3, s3.cursorWatcherId)
             s5 == set_pointer_visible(s4, TRUE, 0)
         IN  emit_property_changed(s5, s5.status)
    ELSE s

\* Reveal that signals Status whether or not it changed.
RevealSignalsAlways(s) ==
    IF s.status = hidden
    THEN LET s1 == [s EXCEPT !.status = visible]
             s2 == enable_unredirect(s1)
             s3 == remove_effect(s2)
             s4 == disconnect(s3, s3.cursorWatcherId)
         IN  emit_property_changed(s4, s4.status)
    ELSE emit_property_changed(s, s.status)

Reveal(s) ==
    IF s.status = hidden
    THEN LET s1 == [s EXCEPT !.status = visible]
             s2 == enable_unredirect(s1)
             s3 == remove_effect(s2)
             s4 == disconnect(s3, s3.cursorWatcherId)
         IN  emit_property_changed(s4, s4.status)
    ELSE s

\* close that does not fix the screen first.
closeSkipsReveal(s) == bus_unown_name(unexport(s))

\* close that unexports before it reveals.
closeUnexportsFirst(s) == bus_unown_name(Reveal(unexport(s)))

close(s) == bus_unown_name(unexport(Reveal(s)))

\* A Status getter that answers with the initial value.
StatusAlwaysVisible(s) == [value |-> visible, state |-> s]

\* get Status(): the value read, and the state the read leaves.
Status(s) == [value |-> s.status, state |-> s]

\* onBusAcquired that wraps the object and does not export it.
onBusAcquiredNoExport(s) ==
    Call([s EXCEPT !.exportedObject = "unexported"], "wrapJSObject", 0, 0)

onBusAcquired(s) ==
    Call([s EXCEPT !.exportedObject = "exported"], "export", 0, 0)

onNameAcquired(s) == s

\* onNameLost that gives up and closes the service.
onNameLostCloses(s) == close(s)

onNameLost(s) == s

-----------------------------------------------------------------------------
(* The state machine *)

Leaves(s, op) ==
    /\ status' = s.status
    /\ cursorWatcherId' = s.cursorWatcherId
    /\ exportedObject' = s.exportedObject
    /\ actor' = s.actor
    /\ compositor' = s.compositor
    /\ cursorTracker' = s.cursorTracker
    /\ ownerId' = s.ownerId
    /\ trace' = s.trace
    /\ lastOp' = op
    /\ history' = Record(history, s.trace)

\* A handler of the service: the extension's own fields stay as they are.
Becomes(s, op) == Leaves(s, op) /\ UNCHANGED lookout

\* A service constructed on its own, with no extension around it.
NoLookout ==
    [service |-> TRUE, gsettings |-> FALSE, keyBinding |-> FALSE,
     fetchFailed |-> FALSE, raised |-> FALSE]

\* The state the constructor leaves; the pointer is shown or not.
Init ==
    /\ status = visible
    /\ cursorWatcherId = 0
    /\ exportedObject = "undefined"
    /\ actor = 0
    /\ compositor = 0
    /\ cursorTracker \in {[visible |-> v, handlers |-> {}, next |-> 1] : v \in BOOLEAN}
    /\ ownerId = "connecting"
    /\ trace = <<>>
    /\ lastOp = "constructor"
    /\ result = visible
    /\ lookout = NoLookout
    /\ history = NoHistory

\* Hide(), from D-Bus or a direct call.
DoHide ==
    /\ status = hidden \/ cursorTracker.next <= MaxHandlerId
    /\ Becomes(Hide(State), "Hide")
    /\ UNCHANGED result

\* Reveal(), from D-Bus, the keybinding or a direct call.
DoReveal ==
    /\ Becomes(Reveal(State), "Reveal")
    /\ UNCHANGED result

DoClose ==
    /\ Becomes(close(State), "close")
    /\ UNCHANGED result

DoStatus ==
    /\ Becomes(Status(State).state, "Status")
    /\ result' = Status(State).value

\* The bus connection is obtained: once, before any name callback.
BusAcquired ==
    /\ ownerId = "connecting"
    /\ Becomes(onBusAcquired([State EXCEPT !.ownerId = "connected"]), "onBusAcquired")
    /\ UNCHANGED result

NameAcquired ==
    /\ ownerId \in {"connected", "lost"}
    /\ Becomes(onNameAcquired([State EXCEPT !.ownerId = "acquired"]), "onNameAcquired")
    /\ UNCHANGED result

\* The name is busy, or the connection was closed or never made.
NameLost ==
    /\ ownerId \in {"connecting", "connected", "acquired"}
    /\ Becomes(onNameLost([State EXCEPT !.ownerId =
                              IF @ = "connecting" THEN "failed" ELSE "lost"]),
               "onNameLost")
    /\ UNCHANGED result

\* Something other than the service shows or hides the pointer.
PointerChanged ==
    \E v \in BOOLEAN :
        /\ Becomes(set_pointer_visible(State, v, 0), "pointer")
        /\ UNCHANGED result

Next ==
    \/ DoHide
    \/ DoReveal
    \/ DoClose
    \/ DoStatus
    \/ BusAcquired
    \/ NameAcquired
    \/ NameLost
    \/ PointerChanged

Spec == Init /\ [][Next]_vars

-----------------------------------------------------------------------------
(* The earlier Service, whose constructor takes the initial status *)

\* new Service(actor, compositor, cursorTracker, status = Status.visible):
\* the status is whatever the caller passes.
ServiceInit ==
    /\ status \in {visible, hidden}
    /\ cursorWatcherId = 0
    /\ exportedObject = "undefined"
    /\ actor = 0
    /\ compositor = 0
    /\ cursorTracker \in {[visible |-> v, handlers |-> {}, next |-> 1] : v \in BOOLEAN}
    /\ ownerId = "connecting"
    /\ trace = <<>>
    /\ lastOp = "constructor"
    /\ result = visible
    /\ lookout = NoLookout
    /\ history = NoHistory

SpecService == ServiceInit /\ [][Next]_vars

-----------------------------------------------------------------------------
(* The extension: enable() makes a service, disable() closes it *)

\* The methods and properties the D-Bus interface declares.
interfaceSchema == [methods |-> {"Hide", "Reveal"}, properties |-> {"Status"}]

\* new Service(...) on the shell's stage, compositor and cursor tracker.
constructor(s) ==
    Call([s EXCEPT !.status = visible, !.cursorWatcherId = 0,
                   !.exportedObject = "undefined", !.ownerId = "connecting"],
         "own_name", 0, 0)

\* enable without the try/catch around getSettings().
enableUncaught(s, l, fetched) ==
    LET s1 == constructor(s)
        s2 == IF fetched THEN Call(s1, "addKeybinding", 0, 0) ELSE s1
    IN  [service |-> s2,
         lookout |-> [service |-> TRUE, gsettings |-> fetched \/ l.gsettings,
                      keyBinding |-> fetched \/ l.keyBinding,
                      fetchFailed |-> ~fetched, raised |-> ~fetched]]

\* Lookout.enable(); fetched says whether getSettings() returned.
enable(s, l, fetched) ==
    LET s1 == constructor(s)
        gsettings == IF fetched THEN TRUE ELSE l.gsettings
        s2 == IF gsettings THEN Call(s1, "addKeybinding", 0, 0) ELSE s1
    IN  [service |-> s2,
         lookout |-> [service |-> TRUE, gsettings |-> gsettings,
                      keyBinding |-> gsettings \/ l.keyBinding,
                      fetchFailed |-> ~fetched, raised |-> FALSE]]

\* disable that drops the service without closing it.
disableSkipsClose(s, l) ==
    [service |-> Call(s, "removeKeybinding", 0, 0),
     lookout |-> [l EXCEPT !.keyBinding = FALSE, !.gsettings = FALSE,
                           !.service = FALSE]]

\* Lookout.disable()
disable(s, l) ==
    LET s1 == Call(s, "removeKeybinding", 0, 0)
        s2 == IF l.service THEN close(s1) ELSE s1
    IN  [service |-> s2,
         lookout |-> [l EXCEPT !.keyBinding = FALSE, !.gsettings = FALSE,
                               !.service = FALSE]]

\* The extension object before its first enable(): no service yet.
LookoutInit ==
    /\ status = visible
    /\ cursorWatcherId = 0
    /\ exportedObject = "undefined"
    /\ actor = 0
    /\ compositor = 0
    /\ cursorTracker \in {[visible |-> v, handlers |-> {}, next |-> 1] : v \in BOOLEAN}
    /\ ownerId = "none"
    /\ trace = <<>>
    /\ lastOp = "Lookout"
    /\ result = visible
    /\ lookout = [service |-> FALSE, gsettings |-> FALSE, keyBinding |-> FALSE,
                  fetchFailed |-> FALSE, raised |-> FALSE]
    /\ history = NoHistory

\* The shell enables an extension that is not enabled.
Enable ==
    /\ ~lookout.service
    /\ \E fetched \in BOOLEAN :
          LET r == enable(State, lookout, fetched)
          IN  Leaves(r.service, "enable") /\ lookout' = r.lookout
    /\ UNCHANGED result

\* The shell disables an extension that is enabled.
Disable ==
    /\ lookout.service
    /\ LET r == disable(State, lookout)
       IN  Leaves(r.service, "disable") /\ lookout' = r.lookout
    /\ UNCHANGED result

\* A method call or property read arrives at the exported object.
IpcHide == lookout.service /\ exportedObject = "exported" /\ DoHide

IpcReveal == lookout.service /\ exportedObject = "exported" /\ DoReveal

IpcStatus == lookout.service /\ exportedObject = "exported" /\ DoStatus

\* The 'reveal-shortcut' keybinding is pressed.
KeyReveal == lookout.keyBinding /\ DoReveal

NextLookout ==
    \/ Enable
    \/ Disable
    \/ IpcHide
    \/ IpcReveal
    \/ IpcStatus
    \/ KeyReveal
    \/ BusAcquired
    \/ NameAcquired
    \/ NameLost
    \/ PointerChanged

SpecLookout == LookoutInit /\ [][NextLookout]_vars

-----------------------------------------------------------------------------
(* Reading the trace of the last handler *)

Calls(name) == {i \in 1..Len(trace) : trace[i].call = name}

CallsIn(tr, name) == Cardinality({i \in 1..Len(tr) : tr[i].call = name})

\* The values of the Status notifications, in the order they were sent.
Notified(tr) ==
    LET sent == SelectSeq(tr, LAMBDA e : e.call = "emit_property_changed")
    IN  [i \in 1..Len(sent) |-> sent[i].arg]

\* The fields of the service and the state of its collaborators.
fields == <<status, cursorWatcherId, exportedObject, actor, compositor,
            cursorTracker, ownerId>>

-----------------------------------------------------------------------------
(* Status as a fold of Hide and Reveal *)

\* The transition rule of one call, Hide or Reveal; any other handler keeps
\* the status.  close() calls Reveal, so it follows Reveal's rule.
FoldStep(st, op) ==
    CASE op = "Hide" -> IF st = visible THEN hidden ELSE st
      [] op \in {"Reveal", "close"} -> IF st = hidden THEN visible ELSE st
      [] OTHER -> st

\* C1: the status starts Visible and each handler changes it as the fold
\* rule of that handler says: Hide takes Visible to Hidden and keeps Hidden,
\* Reveal takes Hidden to Visible and keeps Visible, and reading Status, the
\* bus callbacks and a pointer change keep it.  By induction the status
\* after any sequence of calls is the fold of the rules from Visible.
StatusIsFold ==
    /\ status = visible
    /\ [][status' = FoldStep(status, lastOp')]_vars

\* A Reveal that took the service from Hidden back to Visible.
StatusIsFoldWitness ==
    /\ lastOp = "Reveal"
    /\ status = visible
    /\ Calls("remove_effect") # {}

\* C2: the dim effect is on the actor exactly once while Hidden and not at
\* all while Visible.
EffectIffHidden == actor = IF status = hidden THEN 1 ELSE 0

\* Hidden for the second time, the effect attached again.
EffectIffHiddenWitness ==
    /\ status = hidden
    /\ actor = 1
    /\ cursorWatcherId = 2

\* C3: while Hidden exactly one handler is connected, the one the most
\* recent Hide connected and whose id the service holds; while Visible none
\* is connected, however many Hide/Reveal cycles have run.
SubscriptionIffHidden ==
    /\ cursorTracker.handlers = IF status = hidden THEN {cursorWatcherId} ELSE {}
    /\ status = hidden => cursorWatcherId = cursorTracker.next - 1

\* A Reveal that disconnected the handler of the second Hide.
SubscriptionIffHiddenWitness ==
    /\ lastOp = "Reveal"
    /\ cursorTracker.handlers = {}
    /\ \E i \in Calls("disconnect") : trace[i].arg = 2

-----------------------------------------------------------------------------
(* Status notifications *)

\* C4 as stated: every Hide or Reveal that changes the status sends exactly
\* one Status notification carrying the new value, at any point after
\* construction, and one that changes nothing sends none.
EveryTransitionNotifies ==
    [][lastOp' \in {"Hide", "Reveal"} =>
          Notified(trace') = IF status' # status THEN <<status'>> ELSE <<>>]_vars

\* C4: a Hide or Reveal (close's included) that changes the status sends
\* exactly one Status notification carrying the new value when the object is
\* exported at the time of the call, and none when the bus connection has
\* not been acquired yet; one that changes nothing sends none.
TransitionNotifiesOnceExported ==
    [][lastOp' \in {"Hide", "Reveal", "close"} =>
          /\ status' # status /\ exportedObject = "exported"
                => Notified(trace') = <<status'>>
          /\ status' # status /\ exportedObject = "undefined"
                => Notified(trace') = <<>>
          /\ status' = status => Notified(trace') = <<>>]_vars

\* A Hide on the exported object that sent the one notification, value 1.
TransitionNotifiesOnceExportedWitness ==
    /\ lastOp = "Hide"
    /\ exportedObject = "exported"
    /\ Notified(trace) = <<hidden>>

-----------------------------------------------------------------------------
(* Idempotence *)

Quiet(s) == [s EXCEPT !.trace = <<>>]

\* C5: from any state, a second Hide right after a Hide makes no call and
\* changes nothing, so the two together attach the effect, disable
\* unredirect, connect and notify at most once each; and a Hide while
\* Hidden makes no call and changes no field.
HideIdempotent ==
    LET one == Hide(State)
        again == Hide(Quiet(one))
        both == one.trace \o again.trace
    IN  /\ again = Quiet(one)
        /\ \A c \in {"add_effect", "disable_unredirect", "connect",
                     "emit_property_changed"} : CallsIn(both, c) <= 1
        /\ status = hidden => Hide(State) = State

\* A Hide that ran while Hidden.
HideIdempotentWitness ==
    /\ lastOp = "Hide"
    /\ trace = <<>>
    /\ status = hidden
    /\ actor = 1

\* C6: from any state, a second Reveal right after a Reveal makes no call
\* and changes nothing, so the two together detach the effect, enable
\* unredirect, disconnect and notify at most once each; and a Reveal while
\* Visible makes no call and changes no field.
RevealIdempotent ==
    LET one == Reveal(State)
        again == Reveal(Quiet(one))
        both == one.trace \o again.trace
    IN  /\ again = Quiet(one)
        /\ \A c \in {"remove_effect", "enable_unredirect", "disconnect",
                     "emit_property_changed"} : CallsIn(both, c) <= 1
        /\ status = visible => Reveal(State) = State

\* A Reveal that ran while Visible, after the service had been Hidden.
RevealIdempotentWitness ==
    /\ lastOp = "Reveal"
    /\ trace = <<>>
    /\ status = visible
    /\ cursorWatcherId # 0

-----------------------------------------------------------------------------
(* close *)

\* C7: when close() has returned the status is Visible, the effect is off
\* the actor, no handler is connected, the object is not exported and the
\* name is released.
CloseLeavesClean ==
    lastOp = "close" =>
        /\ status = visible
        /\ actor = 0
        /\ cursorTracker.handlers = {}
        /\ exportedObject # "exported"
        /\ ownerId = "unowned"

\* A close() that found the service Hidden and exported.
CloseLeavesCleanWitness ==
    /\ lastOp = "close"
    /\ Calls("remove_effect") # {}
    /\ Calls("unexport") # {}

-----------------------------------------------------------------------------
(* The pointer *)

\* The set_pointer_visible calls issued by the callback invocation logged
\* at position i of the trace.
SetsBy(i) == {j \in Calls("set_pointer_visible") : trace[j].by = i}

\* What get_pointer_visible answered to the invocation logged at i.
SeenBy(i) == trace[i + 1]

\* C8: while Hidden, an invocation of the callback that finds the pointer
\* visible issues exactly one set_pointer_visible(false), and one that
\* finds it invisible issues no call.
CallbackHidesOnlyVisible ==
    status = hidden =>
        \A i \in Calls("onVisibilityChanged") :
            /\ SeenBy(i).call = "get_pointer_visible"
            /\ SeenBy(i).by = i
            /\ Cardinality(SetsBy(i)) = SeenBy(i).arg
            /\ \A j \in SetsBy(i) : trace[j].arg = 0

\* One invocation found the pointer visible and another found it invisible.
CallbackHidesOnlyVisibleWitness ==
    /\ status = hidden
    /\ \E i, j \in Calls("onVisibilityChanged") :
          SeenBy(i).arg = 1 /\ SeenBy(j).arg = 0

\* C9: between handlers, the pointer is invisible whenever the status is
\* Hidden.
PointerHiddenWhileCloaked == status = hidden => ~cursorTracker.visible

\* Another party showed the pointer while the service was Hidden.
PointerHiddenWhileCloakedWitness ==
    /\ status = hidden
    /\ lastOp = "pointer"
    /\ ~cursorTracker.visible
    /\ \E i \in Calls("set_pointer_visible") :
          trace[i].arg = 1 /\ trace[i].by = 0

-----------------------------------------------------------------------------
(* Reading Status *)

\* C10: a read of Status returns 0 exactly when the status is Visible and 1
\* exactly when it is Hidden, changes no field and makes no call.
StatusReadIsPure ==
    [][lastOp' = "Status" =>
          /\ (result' = 0) <=> (status = visible)
          /\ (result' = 1) <=> (status = hidden)
          /\ UNCHANGED fields
          /\ trace' = <<>>]_vars

\* Status read as 1 while Hidden.
StatusReadIsPureWitness ==
    /\ lastOp = "Status"
    /\ result = 1
    /\ status = hidden

-----------------------------------------------------------------------------
(* Toggle *)

\* C11 as stated: the service offers a Toggle operation, so the object it
\* exports has Toggle among its methods.
ServiceOffersToggle ==
    exportedObject = "exported" => "Toggle" \in interfaceSchema.methods

\* C11: the service offers exactly Hide and Reveal and no Toggle; calling
\* Reveal if the status is Hidden and Hide otherwise always flips the status.
DispatchFlipsWithoutToggle ==
    /\ interfaceSchema.methods = {"Hide", "Reveal"}
    /\ LET toggled == IF status = hidden THEN Reveal(State) ELSE Hide(State)
       IN  toggled.status = IF status = hidden THEN visible ELSE hidden

\* Hide, Reveal, Hide: the status flipped three times.
DispatchFlipsWithoutToggleWitness ==
    /\ lastOp = "Hide"
    /\ Calls("connect") # {}
    /\ cursorWatcherId = 2
    /\ status = hidden

-----------------------------------------------------------------------------
(* Construction *)

\* C12: right after construction the status is Visible, the effect is not
\* on the actor and no handler is connected, however the constructor was
\* called.
ConstructedVisible ==
    lastOp = "constructor" =>
        /\ status = visible
        /\ actor = 0
        /\ cursorTracker.handlers = {}

-----------------------------------------------------------------------------
(* Shutdown *)

\* C13: whenever the extension is disabled the effect is off the actor, and
\* the effect gets onto the actor only by a Hide on an enabled extension's
\* service.
NeverDimmedAfterShutdown ==
    /\ [](~lookout.service => actor = 0)
    /\ [][actor = 0 /\ actor' # 0 =>
             lookout.service /\ lookout'.service /\ lastOp' = "Hide"]_vars

\* The extension was disabled while the screen was dimmed.
NeverDimmedAfterShutdownWitness ==
    /\ lastOp = "disable"
    /\ ~lookout.service
    /\ Calls("remove_effect") # {}
    /\ actor = 0

-----------------------------------------------------------------------------
(* The stored handler id *)

\* C14 as stated: the stored handler id is set exactly while Hidden.
HandleIffHidden == (cursorWatcherId # 0) <=> (status = hidden)

\* C14: Reveal disconnects the handler and leaves the stored id as it is:
\* the field holds the id of the latest connect (0 before the first Hide),
\* and that id is connected exactly while Hidden.
RevealKeepsHandle ==
    /\ [](cursorWatcherId = cursorTracker.next - 1)
    /\ []((cursorWatcherId \in cursorTracker.handlers) <=> (status = hidden))
    /\ [][lastOp' \in {"Reveal", "close"} =>
             cursorWatcherId' = cursorWatcherId]_vars

\* After Hide and Reveal the field still holds the disconnected id.
RevealKeepsHandleWitness ==
    /\ lastOp = "Reveal"
    /\ Calls("disconnect") # {}
    /\ cursorWatcherId = 1
    /\ status = visible

-----------------------------------------------------------------------------
(* The order of close *)

\* The calls Reveal makes.
RevealCalls ==
    Calls("enable_unredirect") \cup Calls("remove_effect")
        \cup Calls("disconnect") \cup Calls("emit_property_changed")

-----------------------------------------------------------------------------
(* The bus callbacks *)

\* The fields of the service and the collaborators it drives.
serviceFields == <<status, cursorWatcherId, exportedObject, actor, compositor,
                   cursorTracker>>

\* C16: while the name is held the object is exported, the export having
\* been made when the bus connection was acquired; the name-acquired
\* callback changes nothing and makes no call.
ExportedBeforeNamed ==
    /\ [](ownerId = "acquired" => exportedObject = "exported")
    /\ [][lastOp' = "onNameAcquired" =>
             UNCHANGED serviceFields /\ trace' = <<>>]_vars

\* The name was acquired with the object already exported.
ExportedBeforeNamedWitness ==
    /\ lastOp = "onNameAcquired"
    /\ ownerId = "acquired"
    /\ exportedObject = "exported"

\* What a Hide or Reveal called now would do: the full transition.
FullTransition ==
    /\ status = visible =>
          LET h == Hide(State)
          IN  h.status = hidden /\ Agrees(h) /\ ~h.cursorTracker.visible
    /\ status = hidden =>
          LET r == Reveal(State)
          IN  r.status = visible /\ Agrees(r)

\* C17: the name-lost callback changes nothing and makes no call (no
\* retry); with the name lost, status, effect and subscription still agree
\* and a Hide or Reveal still makes its full transition.
NameLostChangesNothing ==
    /\ [][lastOp' = "onNameLost" =>
             UNCHANGED serviceFields /\ trace' = <<>>]_vars
    /\ [](ownerId \in {"lost", "failed"} => Agrees(State) /\ FullTransition)

\* A Hide made after the name was lost.
NameLostChangesNothingWitness ==
    /\ lastOp = "Hide"
    /\ ownerId \in {"lost", "failed"}
    /\ status = hidden
    /\ actor = 1

-----------------------------------------------------------------------------
(* The callback and the status *)

\* C18: while the status is Visible, another party's change of the pointer
\* visibility runs no callback and draws no call from the service: the
\* trace holds that party's call alone and the pointer is as it set it.
NoCallbackWhileVisible ==
    [][lastOp' = "pointer" /\ status = visible =>
          /\ Len(trace') = 1
          /\ trace'[1].call = "set_pointer_visible"
          /\ trace'[1].by = 0
          /\ cursorTracker'.visible = (trace'[1].arg = 1)]_vars

\* The pointer was shown after a Hide and a Reveal, and stays shown.
NoCallbackWhileVisibleWitness ==
    /\ lastOp = "pointer"
    /\ status = visible
    /\ cursorWatcherId # 0
    /\ cursorTracker.visible
    /\ trace = <<[call |-> "set_pointer_visible", arg |-> 1, by |-> 0]>>

\* C19: every handler starts with status, effect and subscription agreeing:
\* they agree between handlers, and every callback invocation, the one
\* Hide's own set_pointer_visible(false) triggers included, found them
\* agreeing when it started.
HandlersStartConsistent ==
    /\ Agrees(State)
    /\ \A i \in Calls("onVisibilityChanged") : trace[i].arg = 1

\* A Hide whose own set_pointer_visible(false) ran the callback.
HandlersStartConsistentWitness ==
    /\ lastOp = "Hide"
    /\ status = hidden
    /\ Calls("onVisibilityChanged") # {}

-----------------------------------------------------------------------------
(* A failed settings fetch *)

\* C20: when getSettings() fails in enable(), enable() still returns with
\* the service created and no keybinding; the service makes its Hide and
\* Reveal transitions; and disable() closes it, with the status Visible,
\* the effect off the actor and the name released.
SettingsFailureOnlyLogged ==
    /\ lookout.fetchFailed /\ lookout.service =>
          /\ ~lookout.raised
          /\ ~lookout.keyBinding
          /\ FullTransition
    /\ lookout.fetchFailed /\ lastOp = "enable" =>
          /\ lookout.service
          /\ status = visible
          /\ ownerId = "connecting"
          /\ Calls("addKeybinding") = {}
    /\ lookout.fetchFailed /\ lastOp = "disable" =>
          /\ ~lookout.service
          /\ status = visible
          /\ actor = 0
          /\ cursorTracker.handlers = {}
          /\ ownerId = "unowned"

\* After a failed fetch the service was hidden over D-Bus, and disable()
\* then revealed and closed it.
SettingsFailureOnlyLoggedWitness ==
    /\ lastOp = "disable"
    /\ lookout.fetchFailed
    /\ Calls("remove_effect") # {}

-----------------------------------------------------------------------------
(* The redirect bypass *)

\* C21: after any Hide, Reveal or close of a service, the disable_unredirect()
\* calls it has issued less its enable_unredirect() calls number 1 while the
\* status is Hidden and 0 while it is Visible, so never less than 0 and never
\* more than 1.
UnredirectBalanced ==
    lastOp \in {"Hide", "Reveal", "close"} =>
        /\ history.unredirect = IF status = hidden THEN 1 ELSE 0
        /\ history.unredirect \in 0..1

-----------------------------------------------------------------------------
(* The Status notifications of a service, one after another *)

\* C22: whenever the bus connection arrives among the Hide and Reveal calls,
\* no Status notification of the service carries the value of the one sent
\* before it, and each carries the status the service has when it is sent
\* (no handler changes the status after it notifies).
NotificationsAlternate ==
    /\ \A i \in 1..(Len(history.notified) - 1) :
           history.notified[i] # history.notified[i + 1]
    /\ \A i \in 1..Len(Notified(trace)) : Notified(trace)[i] = status

\* The service has sent two notifications, Visible and then Hidden: its
\* first Hide came before the bus connection and was not announced.
NotificationsAlternateWitness ==
    /\ lastOp = "Hide"
    /\ Notified(trace) = <<hidden>>
    /\ history.notified = <<visible, hidden>>

-----------------------------------------------------------------------------
(* Reveal and the pointer *)

\* C23: Reveal asks for and sets no pointer visibility and leaves the pointer
\* as it found it, so a Reveal that comes right after a Hide leaves the
\* pointer invisible.
RevealLeavesPointer ==
    [][lastOp' = "Reveal" =>
          /\ CallsIn(trace', "get_pointer_visible") = 0
          /\ CallsIn(trace', "set_pointer_visible") = 0
          /\ cursorTracker'.visible = cursorTracker.visible
          /\ (lastOp = "Hide" => ~cursorTracker'.visible)]_vars

\* A Reveal took the service back to Visible and the pointer is invisible.
RevealLeavesPointerWitness ==
    /\ lastOp = "Reveal"
    /\ status = visible
    /\ CallsIn(trace, "disconnect") = 1
    /\ ~cursorTracker.visible

-----------------------------------------------------------------------------
(* The callback inside its own set_pointer_visible(false) *)

\* The set_pointer_visible(false) calls of the last handler.
SetsInvisible == {j \in Calls("set_pointer_visible") : trace[j].arg = 0}

\* C24: handling a visibility change ends. While Hidden, the pointer being
\* shown by another party brings exactly one set_pointer_visible(false) and
\* at most two invocations of the callback, the last of which finds the
\* pointer invisible and calls nothing more; and the set_pointer_visible(false)
\* of Hide is the only one made during Hide.
PointerHandlingEnds ==
    /\ (lastOp = "pointer" /\ status = hidden /\ trace[1].arg = 1) =>
           /\ Cardinality(SetsInvisible) = 1
           /\ Cardinality(Calls("onVisibilityChanged")) \in 1..2
           /\ \A j \in SetsInvisible :
                  \A i \in Calls("onVisibilityChanged") :
                      i > j => SeenBy(i).arg = 0 /\ SetsBy(i) = {}
    /\ lastOp = "Hide" =>
           /\ Cardinality(Calls("set_pointer_visible")) <= 1
           /\ \A j \in Calls("set_pointer_visible") :
                  trace[j].by = 0 /\ trace[j].arg = 0

\* The pointer was shown while Hidden and the callback ran twice: once for
\* the showing, once inside its own set_pointer_visible(false).
PointerHandlingEndsWitness ==
    /\ lastOp = "pointer"
    /\ status = hidden
    /\ trace[1].arg = 1
    /\ Cardinality(Calls("onVisibilityChanged")) = 2
    /\ Cardinality(SetsInvisible) = 1
====
